---- MODULE Spec2Model ----
(***************************************************************************)
(* fcheck: a read-only consistency checker for an xv6-style file system    *)
(* image (src/fcheck.c).  The image is the input of a run; the run is      *)
(* main: layout decoding, then inode_check, bitmap_check,                  *)
(* blockaddrs_check and directory_check, each of which ends the process    *)
(* with one diagnostic and exit(1) at its first violation.                 *)
(*                                                                         *)
(* A block is a sequence of 32-bit words.  Read as an indirect block its   *)
(* words are block addresses; read as a directory block its words are      *)
(* directory entries, the inode number in the low 16 bits (ushort inum)    *)
(* and the name above them.  The format constants NDIRECT, NINDIRECT and   *)
(* DPB come from fs.h and are scaled down here.                            *)
(***************************************************************************)
EXTENDS Integers, Sequences, FiniteSets, TLC

VARIABLES sb, inodes, bitmap, blocks, image, pc, out, results,
          inodemap, stack, deref, followed, idx, inumidx

vars == <<sb, inodes, bitmap, blocks, image, pc, out, results,
          inodemap, stack, deref, followed, idx, inumidx>>

-----------------------------------------------------------------------------
(* Format constants.                                                       *)

T_DIR == 1
T_FILE == 2
T_DEV == 3

\* inodes per block and bitmap bits per block (fs.h, used at lines 88, 90)
IPB == 8
BPB == 4096

\* scaled format constants: direct slots of an inode, words of a block
NDIRECT == 2
BlockWords == 3

\* entries of an indirect block, directory entries of a directory block
NINDIRECT == BlockWords
DPB == BlockWords

\* uint arithmetic wraps around; the word is kept 30 bits wide, the widest
\* power of two whose sums stay within the integers of the model checker.
\* dirent.inum is a ushort
UintMod == 2^30
InumMod == 2^16

\* the names "." and ".." as the bytes of the name field
DotName == 46
DotDotName == 11822

\* bounds of the superblocks the layout is computed for
MaxSize == 4097
MaxNinodes == 9

\* the superblock of the images that are checked
FsSize == 9
NInodes == 4

-----------------------------------------------------------------------------
(* Diagnostics (the printf lines of the source).                           *)

OK == "ok"
ERR_INODE == "ERROR: bad inode."
ERR_DIRECT == "ERROR: bad direct address in inode."
ERR_INDIRECT == "ERROR: bad indirect address in inode."
ERR_ROOT == "ERROR: root directory does not exist."
ERR_FORMAT == "ERROR: directory not properly formatted."
ERR_MARKED_FREE == "ERROR: address used by inode but marked free in bitmap."
ERR_BITMAP == "ERROR: bitmap marks block in use but it is not in use."
ERR_DUP_DIRECT == "ERROR: direct address used more than once."
ERR_DUP_INDIRECT == "ERROR: indirect address used more than once."
ERR_UNREFERENCED == "ERROR: inode marked use but not found in a directory."
ERR_REF_FREE == "ERROR: inode referred to in directory but marked free."
ERR_NLINK == "ERROR: bad reference count for file."
ERR_DUP_DIR == "ERROR: directory appears more than once in file system."

-----------------------------------------------------------------------------
(* The image.                                                              *)

Pad(s, n) == s \o [k \in 1..(n - Len(s)) |-> 0]

Min(S) == CHOOSE x \in S : \A y \in S : x <= y

\* struct dirent: inum in the low 16 bits of the entry, name above it
De(inum, name) == name * InumMod + inum
DeInum(w) == w % InumMod
DeName(w) == w \div InumMod

\* the layout main computes from the superblock
LayoutCeil(s) ==
    LET nib == (s.ninodes + IPB - 1) \div IPB
        nbb == (s.size + BPB - 1) \div BPB
    IN  [numinodeblocks |-> nib, numbitmapblocks |-> nbb,
         firstdatablock |-> (nib + nbb + 2) % UintMod]

Layout(s) ==
    LET nib == ((s.ninodes \div IPB) + 1) % UintMod
        nbb == ((s.size \div BPB) + 1) % UintMod
    IN  [numinodeblocks |-> nib, numbitmapblocks |-> nbb,
         firstdatablock |-> (nib + nbb + 2) % UintMod]

-----------------------------------------------------------------------------
(* Reading the mapped image.                                               *)

Zeros == [k \in 1..BlockWords |-> 0]

RECURSIVE BitmapWord(_)
BitmapWord(S) ==
    IF S = {} THEN 0
    ELSE LET b == CHOOSE x \in S : TRUE IN 2^b + BitmapWord(S \ {b})

\* the words at mmapimage + a*BLOCK_SIZE: block 0 is the boot block, block 1
\* the superblock {size, nblocks, ninodes}, then the inode table (it starts
\* with inode 0, which is zero-filled), then the bitmap, then the data blocks
Block(a) ==
    IF a = 1 THEN Pad(<<sb.size, sb.nblocks, sb.ninodes>>, BlockWords)
    ELSE IF a >= 2 /\ a < 2 + image.numinodeblocks THEN Zeros
    ELSE IF a >= 2 /\ a < image.firstdatablock
         THEN Pad(<<BitmapWord({b \in bitmap : b < 30})>>, BlockWords)
    ELSE blocks[a]

\* BITSET(image->bitmapblocks, blockaddr)
BITSET(a) == a \in bitmap

Inodes == 0..(sb.ninodes - 1)
InUse(i) == inodes[i].type # 0
DirectAddrs(i) == SubSeq(inodes[i].addrs, 1, NDIRECT)
IndirectAddr(i) == inodes[i].addrs[NDIRECT + 1]

RECURSIVE Flatten(_)
Flatten(ss) == IF ss = <<>> THEN <<>> ELSE Head(ss) \o Flatten(Tail(ss))

NonZero(s) == SelectSeq(s, LAMBDA a : a # 0)

BlocksOf(as) == [k \in 1..Len(as) |-> Block(as[k])]

-----------------------------------------------------------------------------
(* inode_check: rules 1 to 5.                                              *)

check_inode_type(i) ==
    IF inodes[i].type # T_FILE /\ inodes[i].type # T_DIR /\ inodes[i].type # T_DEV
    THEN ERR_INODE ELSE OK

check_inode_direct_blocks(i) ==
    IF \E s \in 1..NDIRECT :
          inodes[i].addrs[s] # 0 /\ inodes[i].addrs[s] >= sb.size
    THEN ERR_DIRECT ELSE OK

check_inode_indirect_blocks(i) ==
    LET a == IndirectAddr(i) IN
    IF a = 0 THEN OK
    ELSE IF a >= sb.size THEN ERR_INDIRECT
    ELSE IF \E k \in 1..NINDIRECT : Block(a)[k] # 0 /\ Block(a)[k] >= sb.size
         THEN ERR_INDIRECT ELSE OK

\* the two nested loops of check_dir over the entries es of the directory's
\* non-zero direct blocks, from entry k on; stop is the last entry looked at
RECURSIVE DirScan(_, _, _, _, _)
DirScan(es, k, inum, cfound, pfound) ==
    IF k > Len(es)
    THEN [diag |-> IF ~pfound \/ ~cfound THEN ERR_FORMAT ELSE OK, stop |-> Len(es)]
    ELSE LET de == es[k]
             isdot == ~cfound /\ DeName(de) = DotName
             c2 == cfound \/ isdot
             isdotdot == ~pfound /\ DeName(de) = DotDotName
             p2 == pfound \/ isdotdot
         IN  IF isdot /\ DeInum(de) # inum
             THEN [diag |-> ERR_FORMAT, stop |-> k]
             ELSE IF isdotdot /\ ((inum # 1 /\ DeInum(de) = inum)
                                  \/ (inum = 1 /\ DeInum(de) # inum))
             THEN [diag |-> ERR_ROOT, stop |-> k]
             ELSE IF p2 /\ c2 THEN [diag |-> OK, stop |-> k]
             ELSE DirScan(es, k + 1, inum, c2, p2)

check_dir(i) ==
    DirScan(Flatten(BlocksOf(NonZero(DirectAddrs(i)))), 1, i, FALSE, FALSE)

check_bitmap_addr(i) ==
    LET a == IndirectAddr(i) IN
    IF \E s \in 1..(NDIRECT + 1) :
          inodes[i].addrs[s] # 0 /\ ~BITSET(inodes[i].addrs[s])
    THEN ERR_MARKED_FREE
    ELSE IF a # 0 /\ \E k \in 1..NINDIRECT : Block(a)[k] # 0 /\ ~BITSET(Block(a)[k])
    THEN ERR_MARKED_FREE ELSE OK

\* one pass of inode_check's loop: the number of the check that fails, in
\* the order the loop body makes them (7 when none does)
InodeStage(i) ==
    IF check_inode_type(i) # OK THEN 1
    ELSE IF check_inode_direct_blocks(i) # OK THEN 2
    ELSE IF check_inode_indirect_blocks(i) # OK THEN 3
    ELSE IF i = 1 /\ inodes[i].type # T_DIR THEN 4
    ELSE IF inodes[i].type = T_DIR /\ check_dir(i).diag # OK THEN 5
    ELSE IF check_bitmap_addr(i) # OK THEN 6
    ELSE 7

InodeDiag(i) ==
    CASE InodeStage(i) = 1 -> ERR_INODE
      [] InodeStage(i) = 2 -> ERR_DIRECT
      [] InodeStage(i) = 3 -> ERR_INDIRECT
      [] InodeStage(i) = 4 -> ERR_ROOT
      [] InodeStage(i) = 5 -> check_dir(i).diag
      [] InodeStage(i) = 6 -> ERR_MARKED_FREE
      [] OTHER -> OK

\* the in-use inodes whose checks fail
BadInodes == {i \in Inodes : InUse(i) /\ InodeDiag(i) # OK}

inode_check == IF BadInodes = {} THEN OK ELSE InodeDiag(Min(BadInodes))

\* the blocks inode_check reads as an indirect block or as a directory block
InodeDeref(i) ==
    LET a == IndirectAddr(i)
        ds == NonZero(DirectAddrs(i))
    IN  (IF InodeStage(i) >= 3 /\ a # 0 /\ a < sb.size THEN {a} ELSE {})
        \cup
        (IF InodeStage(i) >= 5 /\ inodes[i].type = T_DIR
         THEN {ds[k] : k \in {k \in 1..Len(ds) :
                                (k - 1) * DPB < check_dir(i).stop}}
         ELSE {})

InodeCheckDeref ==
    UNION {InodeDeref(i) :
             i \in {j \in Inodes : InUse(j)
                                   /\ (BadInodes = {} \/ j <= Min(BadInodes))}}

-----------------------------------------------------------------------------
(* bitmap_check: rule 6.                                                   *)

\* the index blockaddr - image->firstdatablock, in uint arithmetic
Index(a) == (a - image.firstdatablock) % UintMod

\* the indices of used_dbs that get_used_dbs stores to for inode i
get_used_dbs(i) ==
    LET a == IndirectAddr(i) IN
    {Index(inodes[i].addrs[s]) : s \in {s \in 1..(NDIRECT + 1) : inodes[i].addrs[s] # 0}}
    \cup
    (IF a # 0
     THEN {Index(Block(a)[k]) : k \in {k \in 1..NINDIRECT : Block(a)[k] # 0}}
     ELSE {})

BitmapIdx == UNION {get_used_dbs(i) : i \in {j \in Inodes : InUse(j)}}

\* the entries of used_dbs that are set; a store past the array is not one
used_dbs == {x \in BitmapIdx : x < sb.nblocks}

bitmap_check ==
    IF \E x \in 0..(sb.nblocks - 1) :
          x \notin used_dbs /\ BITSET((x + image.firstdatablock) % UintMod)
    THEN ERR_BITMAP ELSE OK

BitmapDeref == {IndirectAddr(i) : i \in {j \in Inodes : InUse(j) /\ IndirectAddr(j) # 0}}

-----------------------------------------------------------------------------
(* blockaddrs_check: rules 7 and 8.                                        *)

\* the indices fill_duaddrs increments for inode i, one per non-zero slot
fill_duaddrs(i) ==
    LET ds == NonZero(DirectAddrs(i)) IN [k \in 1..Len(ds) |-> Index(ds[k])]

\* the indices fill_iuaddrs increments for inode i: the non-zero words of the
\* block the indirect slot names, whatever the slot holds
fill_iuaddrs(i) ==
    LET es == NonZero(Block(IndirectAddr(i))) IN [k \in 1..Len(es) |-> Index(es[k])]

duaddrs(x) ==
    Cardinality({p \in Inodes \X (1..NDIRECT) :
                   /\ InUse(p[1])
                   /\ p[2] <= Len(fill_duaddrs(p[1]))
                   /\ fill_duaddrs(p[1])[p[2]] = x})

iuaddrs(x) ==
    Cardinality({p \in Inodes \X (1..NINDIRECT) :
                   /\ InUse(p[1])
                   /\ p[2] <= Len(fill_iuaddrs(p[1]))
                   /\ fill_iuaddrs(p[1])[p[2]] = x})

BlockaddrsIdx ==
    UNION {{fill_duaddrs(i)[k] : k \in 1..Len(fill_duaddrs(i))}
           \cup {fill_iuaddrs(i)[k] : k \in 1..Len(fill_iuaddrs(i))} :
           i \in {j \in Inodes : InUse(j)}}

blockaddrs_check ==
    LET bad == {x \in 0..(sb.nblocks - 1) : duaddrs(x) > 1 \/ iuaddrs(x) > 1} IN
    IF bad = {} THEN OK
    ELSE IF duaddrs(Min(bad)) > 1 THEN ERR_DUP_DIRECT
    ELSE ERR_DUP_INDIRECT

\* the blocks fill_iuaddrs reads as an indirect block
BlockaddrsDeref == {IndirectAddr(i) : i \in {j \in Inodes : InUse(j)}}

-----------------------------------------------------------------------------
(* directory_check: rules 9 to 12.                                         *)

\* the type read at ((struct dinode *)inodeblocks) + t; the slots of the inode
\* table's last block past ninodes are zero-filled
InodeType(t) == IF t < sb.ninodes THEN inodes[t].type ELSE 0

\* the directory entries traverse_dirs looks at for directory inode n, in the
\* order of its loops: the non-zero direct blocks, then the blocks named by
\* the non-zero words of the indirect block
TravEntries(n) ==
    Flatten(BlocksOf(NonZero(DirectAddrs(n))))
    \o (IF IndirectAddr(n) # 0
        THEN Flatten(BlocksOf(NonZero(Block(IndirectAddr(n)))))
        ELSE <<>>)

\* the blocks traverse_dirs reads for directory inode n
TravDeref(n) ==
    LET ds == NonZero(DirectAddrs(n))
        a == IndirectAddr(n)
    IN  {ds[k] : k \in 1..Len(ds)}
        \cup (IF a # 0
              THEN {a} \cup {Block(a)[k] : k \in {k \in 1..NINDIRECT : Block(a)[k] # 0}}
              ELSE {})

\* the test traverse_dirs makes on a directory entry before it follows it
Live(w) == DeInum(w) # 0 /\ DeName(w) # DotName /\ DeName(w) # DotDotName

\* the first entry at or after pos that traverse_dirs follows (0 when none)
NextLive(es, pos) ==
    LET S == {k \in pos..Len(es) : Live(es[k])} IN IF S = {} THEN 0 ELSE Min(S)

\* the frames the stack holds before the recursion runs out of it: a chain
\* of calls longer than the inode table repeats a directory, and a directory
\* that is its own ancestor is entered again without end
StackLimit == sb.ninodes

\* the checks of one pass of directory_check's last loop, in order
RefDiag(i) ==
    IF inodes[i].type # 0 /\ inodemap[i] = 0 THEN ERR_UNREFERENCED
    ELSE IF inodemap[i] > 0 /\ inodes[i].type = 0 THEN ERR_REF_FREE
    ELSE IF inodes[i].type = T_FILE /\ inodes[i].nlink # inodemap[i] THEN ERR_NLINK
    ELSE IF inodes[i].type = T_DIR /\ inodemap[i] > 1 THEN ERR_DUP_DIR
    ELSE OK

check_refs ==
    LET bad == {i \in 2..(sb.ninodes - 1) : RefDiag(i) # OK} IN
    IF bad = {} THEN OK ELSE RefDiag(Min(bad))

-----------------------------------------------------------------------------
(* The images that are checked: a few well-formed images, each with up to  *)
(* two of its fields overwritten.                                          *)

TheSb ==
    [size |-> FsSize,
     nblocks |-> FsSize - Layout([size |-> FsSize, ninodes |-> NInodes]).firstdatablock,
     ninodes |-> NInodes]

FirstData == Layout(TheSb).firstdatablock
DataBlocks == FirstData..(FsSize - 1)
MetaBlocks == 0..(FirstData - 1)

Ino(type, nlink, direct, indirect) ==
    [type |-> type, nlink |-> nlink, addrs |-> Pad(direct, NDIRECT) \o <<indirect>>]

InodeTable(f) ==
    [i \in 0..(NInodes - 1) |-> IF i \in DOMAIN f THEN f[i] ELSE Ino(0, 0, <<>>, 0)]

BlockTable(f) ==
    [a \in {0} \cup DataBlocks |-> IF a \in DOMAIN f THEN Pad(f[a], BlockWords) ELSE Zeros]

\* a root directory holding one file
Clean ==
    [inodes |-> InodeTable(1 :> Ino(T_DIR, 1, <<4>>, 0) @@ 2 :> Ino(T_FILE, 1, <<5>>, 0)),
     bitmap |-> MetaBlocks \cup {4, 5},
     blocks |-> BlockTable(4 :> <<De(1, DotName), De(1, DotDotName), De(2, 97)>>)]

\* a subdirectory whose only entry lies in a block named by its indirect block
Tree ==
    [inodes |-> InodeTable(1 :> Ino(T_DIR, 1, <<4>>, 0) @@ 2 :> Ino(T_DIR, 1, <<5>>, 6)
                           @@ 3 :> Ino(T_FILE, 1, <<8>>, 0)),
     bitmap |-> MetaBlocks \cup {4, 5, 6, 7, 8},
     blocks |-> BlockTable(4 :> <<De(1, DotName), De(1, DotDotName), De(2, 100)>>
                           @@ 5 :> <<De(2, DotName), De(1, DotDotName)>>
                           @@ 6 :> <<7>>
                           @@ 7 :> <<De(3, 102)>>)]

\* directory d holding file f, with two entries of the root naming d
DirTwice(d, f) ==
    [inodes |-> InodeTable(1 :> Ino(T_DIR, 1, <<4, 8>>, 0) @@ d :> Ino(T_DIR, 1, <<5>>, 0)
                           @@ f :> Ino(T_FILE, 1, <<6>>, 0)),
     bitmap |-> MetaBlocks \cup {4, 5, 6, 8},
     blocks |-> BlockTable(4 :> <<De(1, DotName), De(1, DotDotName), De(d, 97)>>
                           @@ 8 :> <<De(d, 98)>>
                           @@ 5 :> <<De(d, DotName), De(1, DotDotName), De(f, 102)>>)]

\* every inode free
Blank ==
    [inodes |-> InodeTable(<<>>), bitmap |-> MetaBlocks, blocks |-> BlockTable(<<>>)]

Bases == {Clean, Tree, DirTwice(3, 2), DirTwice(2, 3), Blank}

Mut(k, a, b, v) == [k |-> k, a |-> a, b |-> b, v |-> v]

WordVals ==
    {0, 5, 8, FsSize, De(1, 97), De(2, 98), De(3, 99), De(NInodes + 2, 97),
     De(1, DotDotName), De(2, DotDotName), De(2, DotName), De(0, DotName)}

Muts2 ==
    {Mut("none", 0, 0, 0), Mut("bit", 8, 0, 0), Mut("word", 0, 1, 5), Mut("addr", 2, 2, 1)}

Muts ==
    Muts2
    \cup {Mut("type", i, 0, v) : i \in 1..3, v \in 0..4}
    \cup {Mut("nlink", i, 0, v) : i \in 2..3, v \in 0..2}
    \cup {Mut("addr", i, sl, v) : i \in 1..3, sl \in {1, 2, NDIRECT + 1},
                                  v \in {0, 1, 4, 5, 6, 8, FsSize}}
    \cup {Mut("bit", a, 0, 0) : a \in 0..(FsSize - 1)}
    \cup {Mut("word", a, w, v) : a \in {0} \cup DataBlocks, w \in 1..BlockWords,
                                 v \in WordVals}

Apply(im, m) ==
    CASE m.k = "type" -> [im EXCEPT !.inodes[m.a].type = m.v]
      [] m.k = "nlink" -> [im EXCEPT !.inodes[m.a].nlink = m.v]
      [] m.k = "addr" -> [im EXCEPT !.inodes[m.a].addrs[m.b] = m.v]
      [] m.k = "bit" -> [im EXCEPT !.bitmap = IF m.a \in @ THEN @ \ {m.a} ELSE @ \cup {m.a}]
      [] m.k = "word" -> [im EXCEPT !.blocks[m.a][m.b] = m.v]
      [] OTHER -> im

Images == {Apply(Apply(b, m1), m2) : b \in Bases, m1 \in Muts, m2 \in Muts2}

-----------------------------------------------------------------------------
(* The run.                                                                *)

NoLayout == [numinodeblocks |-> 0, numbitmapblocks |-> 0, firstdatablock |-> 0]

InitRun ==
    /\ image = NoLayout
    /\ pc = "main"
    /\ out = <<>>
    /\ results = <<>>
    /\ inodemap = <<>>
    /\ stack = <<>>
    /\ deref = {}
    /\ followed = {}
    /\ idx = {}
    /\ inumidx = {}

Init ==
    /\ sb = TheSb
    /\ \E im \in Images :
          /\ inodes = im.inodes
          /\ bitmap = im.bitmap
          /\ blocks = im.blocks
    /\ InitRun

\* superblocks alone, for the layout computation
InitLayout ==
    /\ sb \in [size : 1..MaxSize, nblocks : {0}, ninodes : 1..MaxNinodes]
    /\ inodes = <<>>
    /\ bitmap = {}
    /\ blocks = <<>>
    /\ InitRun

\* where control goes when a rule group returns or exits
AfterGroupNoExit(diag, next) == next

AfterGroup(diag, next) == IF diag = OK THEN next ELSE "exit1"

\* what the group prints
Printed(diag) == IF diag = OK THEN out ELSE Append(out, diag)

\* what a store past the end of an array can do: end the process with a
\* signal, or land outside the arrays of the check and let it go on
Outcomes(undefined) == IF undefined THEN {"crash", "continue"} ELSE {"continue"}

\* main, lines 85-98
DecodeLayout ==
    /\ pc = "main"
    /\ image' = Layout(sb)
    /\ pc' = "inode_check"
    /\ UNCHANGED <<sb, inodes, bitmap, blocks, out, results, inodemap, stack,
                   deref, followed, idx, inumidx>>

InodeCheck ==
    /\ pc = "inode_check"
    /\ results' = Append(results, inode_check)
    /\ out' = Printed(inode_check)
    /\ pc' = AfterGroup(inode_check, "bitmap_check")
    /\ deref' = deref \cup InodeCheckDeref
    /\ UNCHANGED <<sb, inodes, bitmap, blocks, image, inodemap, stack, followed,
                   idx, inumidx>>

BitmapCheck ==
    /\ pc = "bitmap_check"
    /\ idx' = idx \cup BitmapIdx
    /\ deref' = deref \cup BitmapDeref
    /\ \E o \in Outcomes(\E x \in BitmapIdx : x >= sb.nblocks) :
          IF o = "crash"
          THEN /\ pc' = "crashed"
               /\ UNCHANGED <<out, results>>
          ELSE /\ results' = Append(results, bitmap_check)
               /\ out' = Printed(bitmap_check)
               /\ pc' = AfterGroup(bitmap_check, "blockaddrs_check")
    /\ UNCHANGED <<sb, inodes, bitmap, blocks, image, inodemap, stack, followed,
                   inumidx>>

BlockaddrsCheck ==
    /\ pc = "blockaddrs_check"
    /\ idx' = idx \cup BlockaddrsIdx
    /\ deref' = deref \cup BlockaddrsDeref
    /\ \E o \in Outcomes(\E x \in BlockaddrsIdx : x >= sb.nblocks) :
          IF o = "crash"
          THEN /\ pc' = "crashed"
               /\ UNCHANGED <<out, results>>
          ELSE /\ results' = Append(results, blockaddrs_check)
               /\ out' = Printed(blockaddrs_check)
               /\ pc' = AfterGroup(blockaddrs_check, "directory_check")
    /\ UNCHANGED <<sb, inodes, bitmap, blocks, image, inodemap, stack, followed,
                   inumidx>>

\* directory_check up to its call of traverse_dirs on inode 1
DirectoryCheck ==
    /\ pc = "directory_check"
    /\ inodemap' = [i \in Inodes |-> IF i <= 1 THEN 1 ELSE 0]
    /\ inumidx' = inumidx \cup {0, 1}
    /\ IF inodes[1].type = T_DIR
       THEN /\ stack' = <<[inum |-> 1, pos |-> 1]>>
            /\ deref' = deref \cup TravDeref(1)
            /\ pc' = "traverse"
       ELSE /\ stack' = <<>>
            /\ deref' = deref
            /\ pc' = "check_refs"
    /\ UNCHANGED <<sb, inodes, bitmap, blocks, image, out, results, followed, idx>>

Top == stack[Len(stack)]
TopNext == NextLive(TravEntries(Top.inum), Top.pos)
TopTarget == DeInum(TravEntries(Top.inum)[TopNext])

\* traverse_dirs follows the next entry of the directory it is in
TraverseEntry ==
    /\ pc = "traverse"
    /\ TopNext # 0
    /\ TopTarget < sb.ninodes
    /\ inodemap' = [inodemap EXCEPT ![TopTarget] = @ + 1]
    /\ inumidx' = inumidx \cup {TopTarget}
    /\ followed' = followed \cup {TopTarget}
    /\ IF InodeType(TopTarget) # T_DIR
       THEN /\ stack' = [stack EXCEPT ![Len(stack)].pos = TopNext + 1]
            /\ deref' = deref
            /\ pc' = "traverse"
       ELSE IF Len(stack) >= StackLimit
       THEN /\ stack' = stack
            /\ deref' = deref
            /\ pc' = "stack_overflow"
       ELSE /\ stack' = Append([stack EXCEPT ![Len(stack)].pos = TopNext + 1],
                               [inum |-> TopTarget, pos |-> 1])
            /\ deref' = deref \cup TravDeref(TopTarget)
            /\ pc' = "traverse"
    /\ UNCHANGED <<sb, inodes, bitmap, blocks, image, out, results, idx>>

\* the next entry names an inode past the table: inodemap[dir->inum]++ is a
\* store past the array
TraverseOutOfRange ==
    /\ pc = "traverse"
    /\ TopNext # 0
    /\ TopTarget >= sb.ninodes
    /\ inumidx' = inumidx \cup {TopTarget}
    /\ followed' = followed \cup {TopTarget}
    /\ \E o \in Outcomes(TRUE) :
          IF o = "crash"
          THEN /\ pc' = "crashed"
               /\ stack' = stack
          ELSE /\ pc' = "traverse"
               /\ stack' = [stack EXCEPT ![Len(stack)].pos = TopNext + 1]
    /\ UNCHANGED <<sb, inodes, bitmap, blocks, image, out, results, inodemap,
                   deref, idx>>

\* the loops of traverse_dirs are over: it returns to its caller
TraverseReturn ==
    /\ pc = "traverse"
    /\ TopNext = 0
    /\ stack' = SubSeq(stack, 1, Len(stack) - 1)
    /\ pc' = IF Len(stack) = 1 THEN "check_refs" ELSE "traverse"
    /\ UNCHANGED <<sb, inodes, bitmap, blocks, image, out, results, inodemap,
                   deref, followed, idx, inumidx>>

\* the last loop of directory_check, then exit(0)
CheckRefs ==
    /\ pc = "check_refs"
    /\ results' = Append(results, check_refs)
    /\ out' = Printed(check_refs)
    /\ pc' = AfterGroup(check_refs, "exit0")
    /\ UNCHANGED <<sb, inodes, bitmap, blocks, image, inodemap, stack, deref,
                   followed, idx, inumidx>>

Next ==
    \/ DecodeLayout
    \/ InodeCheck
    \/ BitmapCheck
    \/ BlockaddrsCheck
    \/ DirectoryCheck
    \/ TraverseEntry
    \/ TraverseOutOfRange
    \/ TraverseReturn
    \/ CheckRefs

Spec == Init /\ [][Next]_vars

NextLayout == DecodeLayout

SpecLayout == InitLayout /\ [][NextLayout]_vars

-----------------------------------------------------------------------------
(* The twelve rules of the data model, stated on the image itself.         *)

UsedInodes == {i \in Inodes : inodes[i].type # 0}
DirInodes == {i \in Inodes : inodes[i].type = T_DIR}

\* the words of block a, all zero for an address outside the image
WordsOf(a) == IF a < sb.size THEN Block(a) ELSE Zeros

DirectSet(i) == {inodes[i].addrs[s] : s \in 1..NDIRECT} \ {0}
IndirectSet(i) ==
    IF IndirectAddr(i) = 0 THEN {}
    ELSE {WordsOf(IndirectAddr(i))[k] : k \in 1..NINDIRECT} \ {0}
AddrSet(i) == DirectSet(i) \cup ({IndirectAddr(i)} \ {0}) \cup IndirectSet(i)

\* the directory entries of directory i, as <<block, slot>> places
EntryPlaces(i) == ((DirectSet(i) \cup IndirectSet(i)) \cap 0..(sb.size - 1)) \X (1..DPB)
EntryAt(p) == WordsOf(p[1])[p[2]]
NamedPlaces(i, name) == {p \in EntryPlaces(i) : DeName(EntryAt(p)) = name}

\* the entries that refer to inode n under a name other than "." and ".."
Links(n) ==
    {q \in DirInodes \X (0..(sb.size - 1)) \X (1..DPB) :
       /\ <<q[2], q[3]>> \in EntryPlaces(q[1])
       /\ Live(EntryAt(<<q[2], q[3]>>))
       /\ DeInum(EntryAt(<<q[2], q[3]>>)) = n}
RefCount(n) == Cardinality(Links(n))
LinkTargets ==
    {DeInum(EntryAt(p)) : p \in {p \in UNION {EntryPlaces(i) : i \in DirInodes} :
                                   Live(EntryAt(p))}}

Rule1 == \A i \in UsedInodes : inodes[i].type \in {T_FILE, T_DIR, T_DEV}
Rule2 == \A i \in UsedInodes : \A a \in AddrSet(i) : a < sb.size
Rule3 ==
    /\ 1 \in DirInodes
    /\ NamedPlaces(1, DotDotName) # {}
    /\ \A p \in NamedPlaces(1, DotDotName) : DeInum(EntryAt(p)) = 1
    /\ \A i \in DirInodes \ {1} :
          \A p \in NamedPlaces(i, DotDotName) : DeInum(EntryAt(p)) # i
Rule4 ==
    \A i \in DirInodes :
       /\ Cardinality(NamedPlaces(i, DotName)) = 1
       /\ \A p \in NamedPlaces(i, DotName) : DeInum(EntryAt(p)) = i
       /\ Cardinality(NamedPlaces(i, DotDotName)) = 1
Rule5 == \A i \in UsedInodes : \A a \in AddrSet(i) : a \in bitmap
Rule6 ==
    \A b \in image.firstdatablock..(sb.size - 1) :
       b \in bitmap => \E i \in UsedInodes : b \in AddrSet(i)
Rule7 ==
    \A i, j \in UsedInodes : i # j => DirectSet(i) \cap DirectSet(j) = {}
Rule8 ==
    \A i, j \in UsedInodes : i # j => IndirectSet(i) \cap IndirectSet(j) = {}
Rule9 == \A i \in UsedInodes : i >= 2 => RefCount(i) >= 1
Rule10 == \A n \in LinkTargets : n \in UsedInodes
Rule11 == \A i \in Inodes : inodes[i].type = T_FILE => inodes[i].nlink = RefCount(i)
Rule12 ==
    /\ \A i \in DirInodes : i >= 2 => RefCount(i) = 1
    /\ RefCount(1) = 0

Rules1to11 ==
    /\ Rule1 /\ Rule2 /\ Rule3 /\ Rule4 /\ Rule5 /\ Rule6
    /\ Rule7 /\ Rule8 /\ Rule9 /\ Rule10 /\ Rule11

SatisfiesAllRules == Rules1to11 /\ Rule12

\* every address an in-use inode holds is the number of a data block
AddressesInDataRegion ==
    \A i \in UsedInodes : \A a \in AddrSet(i) : a >= image.firstdatablock

-----------------------------------------------------------------------------
(* The claims.                                                             *)

\* C1: an image that satisfies all twelve rules goes through the four rule
\* groups without a diagnostic and the run ends with exit code 0.  (Stated
\* for the images whose addresses all lie in the data region.)
C1_CleanImagePasses ==
    (pc # "main" /\ SatisfiesAllRules /\ AddressesInDataRegion)
    => (out = <<>> /\ pc \notin {"exit1", "crashed", "stack_overflow"})

\* the number of rule groups that have run to their end when control is at p
GroupsDone(p) ==
    CASE p \in {"main", "inode_check"} -> {0}
      [] p = "bitmap_check" -> {1}
      [] p = "blockaddrs_check" -> {2}
      [] p \in {"directory_check", "traverse", "check_refs", "stack_overflow"} -> {3}
      [] p = "exit0" -> {4}
      [] p = "exit1" -> 1..4
      [] p = "crashed" -> 1..3

\* C2: at most one diagnostic is printed, by the first group that meets a
\* violation in the order inode_check, bitmap_check, blockaddrs_check,
\* directory_check: a group runs only after every earlier group has ended
\* without a violation, and once a diagnostic is printed the run is over
\* with exit code 1.
C2_OneDiagnosticInOrder ==
    /\ Len(out) <= 1
    /\ Len(results) \in GroupsDone(pc)
    /\ \A k \in 1..(Len(results) - 1) : results[k] = OK
    /\ out # <<>> => (pc = "exit1" /\ out[1] = results[Len(results)])
    /\ pc = "exit1" => (Len(out) = 1 /\ out[1] # OK)
    /\ pc = "exit0" => (out = <<>> /\ \A k \in 1..4 : results[k] = OK)
    /\ Len(results) >= 1 => results[1] = inode_check
    /\ Len(results) >= 2 => results[2] = bitmap_check
    /\ Len(results) >= 3 => results[3] = blockaddrs_check

\* a diagnostic printed by the third group after the first two passed
C2_Witness == pc = "exit1" /\ Len(results) = 3 /\ out = <<ERR_DUP_DIRECT>>

\* n is the ceiling of x / d
IsCeiling(n, x, d) == (n - 1) * d < x /\ x <= n * d

\* n is the floor of x / d, plus one
IsFloorPlusOne(n, x, d) == (n - 1) * d <= x /\ x < n * d

\* C3 as stated: the inode-table block count is the ceiling of ninodes / IPB,
\* the bitmap block count the ceiling of size / BPB and firstdatablock is
\* 2 + both, exact multiples included.
C3_LayoutIsCeiling ==
    pc # "main" =>
       /\ IsCeiling(image.numinodeblocks, sb.ninodes, IPB)
       /\ IsCeiling(image.numbitmapblocks, sb.size, BPB)
       /\ image.firstdatablock = 2 + image.numinodeblocks + image.numbitmapblocks

\* C3 amended: the inode-table block count is the floor of ninodes / IPB plus
\* one, the bitmap block count the floor of size / BPB plus one (one more
\* than the ceiling when ninodes is an exact multiple of IPB, or size of
\* BPB), and firstdatablock is 2 + both.
C3_LayoutIsFloorPlusOne ==
    pc # "main" =>
       /\ IsFloorPlusOne(image.numinodeblocks, sb.ninodes, IPB)
       /\ IsFloorPlusOne(image.numbitmapblocks, sb.size, BPB)
       /\ image.firstdatablock = 2 + image.numinodeblocks + image.numbitmapblocks

\* the layout of a superblock whose ninodes and size are exact multiples
C3_Witness ==
    pc # "main" /\ sb.ninodes = IPB /\ sb.size = BPB /\ image.firstdatablock = 6

\* the first entry named name among the direct blocks of directory i, the
\* entry check_dir and the data model take as the directory's (0 when none)
FirstNamed(i, name) ==
    LET es == Flatten(BlocksOf(NonZero(DirectAddrs(i))))
        S == {k \in 1..Len(es) : DeName(es[k]) = name}
    IN  IF S = {} THEN 0 ELSE es[Min(S)]

\* C4: when the run ends with exit code 0, inode 1 is an in-use directory
\* whose ".." entry names inode 1 and no other directory's ".." entry names
\* the directory itself; an image whose inode 1 is free never exits 0.
C4_ExitZeroHasRoot ==
    pc = "exit0" =>
       /\ inodes[1].type = T_DIR
       /\ FirstNamed(1, DotDotName) = De(1, DotDotName)
       /\ \A i \in DirInodes \ {1} : DeInum(FirstNamed(i, DotDotName)) # i

\* some data block is a direct address of two distinct in-use inodes
DirectShared ==
    \E i, j \in UsedInodes :
       i # j /\ DirectSet(i) \cap DirectSet(j) \cap image.firstdatablock..(sb.size - 1) # {}

\* some data block is listed in the indirect blocks of two distinct in-use inodes
IndirectShared ==
    \E i, j \in UsedInodes :
       i # j /\ IndirectSet(i) \cap IndirectSet(j) \cap image.firstdatablock..(sb.size - 1) # {}

\* C5: when inode_check and bitmap_check pass, blockaddrs_check reports a
\* direct address used more than once exactly when two distinct in-use inodes
\* list the same data block as a direct address, and an indirect address used
\* more than once exactly when two distinct in-use inodes list the same data
\* block in their indirect blocks.
C5_DuplicateExactly ==
    (Len(results) >= 3 /\ AddressesInDataRegion) =>
       /\ results[3] = ERR_DUP_DIRECT => DirectShared
       /\ results[3] = ERR_DUP_INDIRECT => IndirectShared
       /\ results[3] = OK => (~DirectShared /\ ~IndirectShared)

\* C6: no validator reads block 0 as an indirect block or as a directory
\* block, and none follows inode number 0.
C6_ZeroNeverDereferenced == 0 \notin deref /\ 0 \notin followed

\* some data block has its bitmap bit set and no in-use inode refers to it
Overstated ==
    \E b \in image.firstdatablock..(sb.size - 1) :
       b \in bitmap /\ \A i \in UsedInodes : b \notin AddrSet(i)

\* C7: when inode_check passes, bitmap_check reports a block the bitmap marks
\* in use although it is not, exactly when some data block has its bit set
\* and is referred to by no in-use inode.
C7_BitmapReportExactly ==
    (Len(results) >= 1 /\ results[1] = OK /\ pc # "bitmap_check") =>
       ((Len(results) >= 2 /\ results[2] = ERR_BITMAP) <=> Overstated)

\* C8: on an image on which inode_check, bitmap_check and blockaddrs_check
\* find no violation and whose only defect is a directory inode (index >= 2)
\* that more than one directory entry refers to, the run reports that the
\* directory appears more than once, and no other diagnostic.  (Stated for
\* the runs that end with an exit code.)
C8_OnlyDirectoryReported ==
    (/\ pc \in {"exit0", "exit1"}
     /\ Len(results) >= 3
     /\ results[3] = OK
     /\ Rules1to11
     /\ AddressesInDataRegion
     /\ RefCount(1) = 0
     /\ \E i \in DirInodes : i >= 2 /\ RefCount(i) > 1)
    => out = <<ERR_DUP_DIR>>

\* C9: the walk traverse_dirs starts at inode 1 always returns: the run never
\* ends inside it with the stack used up.
C9_WalkReturns == pc # "stack_overflow"

\* C10: every index used on used_dbs, duaddrs and iuaddrs lies in
\* [0, nblocks) and every index used on inodemap lies in [0, ninodes).
C10_IndicesInBounds ==
    /\ \A x \in idx : 0 <= x /\ x < sb.nblocks
    /\ \A n \in inumidx : 0 <= n /\ n < sb.ninodes

====
